---- MODULE Spec2Model ----
(***************************************************************************)
(* A model of the StudyMate WhatsApp relay (src/app.py): the webhook turn  *)
(* dispatcher, the quota gate, the per-phone session cache, the response   *)
(* interpreter and the background voice-processing thread.                 *)
(*                                                                         *)
(* Text is modelled as a sequence of tokens (words, whitespace, fences,    *)
(* JSON punctuation), so that strip(), split(), the fence stripping and    *)
(* json.loads() are computed on the text and not assumed.                  *)
(***************************************************************************)
EXTENDS Integers, Sequences, FiniteSets, TLC

(***************************************************************************)
(* Bounds of the model and constants of the program.                       *)
(***************************************************************************)
\* The clock runs from 0 to MaxTime, in units of half a day.
MaxTime == 2
\* The number of distinct question texts the environment sends.
MaxQ == 6
\* timedelta(days=1), in clock units.
Day == 2
\* The free tier's daily allotment.
Ceiling == 20
\* deque(maxlen=5)
HistoryCap == 5
\* The confidence threshold 0.6, in percent.
MinConfidence == 60

Phones == {"p1"}
MediaIds == {"m1"}
WebThreads == {"w1", "w2"}
VoiceThreads == {"v1"}
Threads == WebThreads \cup VoiceThreads

\* Python's None where a text is expected (a token no text contains).
PyNone == <<"<None>">>

(***************************************************************************)
(* Text: str.strip, str.split, str.lower, substring test.                  *)
(***************************************************************************)
Whitespace == {" ", "\n"}

RECURSIVE LStrip(_)
LStrip(t) == IF t # <<>> /\ t[1] \in Whitespace THEN LStrip(Tail(t)) ELSE t

RECURSIVE RStrip(_)
RStrip(t) ==
    IF t # <<>> /\ t[Len(t)] \in Whitespace
    THEN RStrip(SubSeq(t, 1, Len(t) - 1))
    ELSE t

Strip(t) == RStrip(LStrip(t))

IsWord(tok) == tok \notin Whitespace

Split(t) == SelectSeq(t, IsWord)

LowerTok(tok) ==
    CASE tok = "Jane" -> "jane"
      [] tok = "Doe" -> "doe"
      [] tok = "New" -> "new"
      [] OTHER -> tok

Lower(t) == [i \in 1..Len(t) |-> LowerTok(t[i])]

Contains(pat, t) ==
    \E i \in 0..(Len(t) - Len(pat)) : SubSeq(t, i + 1, i + Len(pat)) = pat

(***************************************************************************)
(* strip_fences                                                            *)
(***************************************************************************)
\* The three-backquote code fence, one token.
Fence == "<fence>"

\* t[3:-3] of a text that starts and ends with the three-character fence
DropFences(t) == IF Len(t) >= 2 THEN SubSeq(t, 2, Len(t) - 1) ELSE <<>>

strip_fences(raw) ==
    LET t == Strip(raw) IN
    IF t # <<>> /\ t[1] = Fence /\ t[Len(t)] = Fence
    THEN Strip(DropFences(t))
    ELSE t

(***************************************************************************)
(* json.loads on the token grammar                                         *)
(*   value  ::= string | number | null | { members } | [ ]                 *)
(*   member ::= string : value    (nested objects and lists are empty)     *)
(* A decoded value is a Python value [py |-> its type, v |-> its payload]. *)
(***************************************************************************)
JStrings == {"\"type\"", "\"content\"", "\"answer\"", "\"clarification\"",
             "\"quiz\"", "\"x\"", "\"what grade?\"",
             "\"Sorry, I encountered an error. Please try again.\""}
JNumbers == {"7"}

Unquote(tok) ==
    CASE tok = "\"type\"" -> "type"
      [] tok = "\"content\"" -> "content"
      [] tok = "\"answer\"" -> "answer"
      [] tok = "\"clarification\"" -> "clarification"
      [] tok = "\"quiz\"" -> "quiz"
      [] tok = "\"x\"" -> "x"
      [] tok = "\"what grade?\"" -> "what grade?"
      [] tok = "\"Sorry, I encountered an error. Please try again.\"" ->
           "Sorry, I encountered an error. Please try again."
      [] OTHER -> tok

\* A Python value: its type, its str() as a text, and a dict's items.
PyVal(py, v, items) == [py |-> py, v |-> v, items |-> items]
PyStr(text) == PyVal("str", text, <<>>)
PyInt(tok) == PyVal("int", <<tok>>, <<>>)
PyNoneVal == PyVal("NoneType", <<"None">>, <<>>)
PyEmptyDict == PyVal("dict", <<"{}">>, <<>>)
PyEmptyList == PyVal("list", <<"[]">>, <<>>)
PyDict(items) == PyVal("dict", <<"{...}">>, items)

JsonFail == [ok |-> FALSE, val |-> PyNoneVal]

\* The number of tokens of the value that starts s, 0 if none does.
ValueLen(s) ==
    IF s = <<>> THEN 0
    ELSE IF s[1] \in JStrings \cup JNumbers \cup {"null"} THEN 1
    ELSE IF Len(s) >= 2 /\ s[1] = "{" /\ s[2] = "}" THEN 2
    ELSE IF Len(s) >= 2 /\ s[1] = "[" /\ s[2] = "]" THEN 2
    ELSE 0

ScalarValue(s) ==
    IF s[1] \in JStrings THEN PyStr(<<Unquote(s[1])>>)
    ELSE IF s[1] \in JNumbers THEN PyInt(s[1])
    ELSE IF s[1] = "null" THEN PyNoneVal
    ELSE IF s[1] = "{" THEN PyEmptyDict
    ELSE PyEmptyList

\* The members of an object, after its opening brace: the decoded pairs as a
\* sequence of <<key, value>>, later keys overriding earlier ones on lookup.
RECURSIVE ParseMembers(_, _)
ParseMembers(s, acc) ==
    IF Len(s) >= 3 /\ s[1] \in JStrings /\ s[2] = ":"
    THEN LET rest == SubSeq(s, 3, Len(s))
             n == ValueLen(rest)
             pair == <<Unquote(s[1]), ScalarValue(rest)>>
             after == SubSeq(rest, n + 1, Len(rest))
         IN  IF n = 0 THEN JsonFail
             ELSE IF after = <<"}">>
                  THEN [ok |-> TRUE, val |-> PyDict(Append(acc, pair))]
             ELSE IF Len(after) >= 2 /\ after[1] = ","
                  THEN ParseMembers(Tail(after), Append(acc, pair))
             ELSE JsonFail
    ELSE JsonFail

json_loads(text) ==
    LET s == Split(text) IN
    IF s = <<>> THEN JsonFail
    ELSE IF s[1] = "{"
         THEN IF s = <<"{", "}">>
              THEN [ok |-> TRUE, val |-> PyEmptyDict]
              ELSE ParseMembers(Tail(s), <<>>)
    ELSE IF ValueLen(s) = Len(s) THEN [ok |-> TRUE, val |-> ScalarValue(s)]
    ELSE JsonFail

\* dict.get(key, default)
RECURSIVE DictGet(_, _, _)
DictGet(pairs, key, default) ==
    IF pairs = <<>> THEN default
    ELSE IF pairs[Len(pairs)][1] = key THEN pairs[Len(pairs)][2]
    ELSE DictGet(SubSeq(pairs, 1, Len(pairs) - 1), key, default)

\* str(value)
PyToStr(val) == val.v

(***************************************************************************)
(* The texts of the program (each one token) and of the environment.       *)
(***************************************************************************)
SYSTEM_PROMPT == <<"<studymate_prompt.txt>">>
AskNameText == <<"Please share your full name (first and last).">>
WelcomeText(first_name) ==
    <<"What would you like to study today, ", first_name, "?">>
LimitText == <<"Free limit reached (20/day). Upgrade for unlimited usage.">>
GreatText == <<"Great - what's next?">>
ProcessingText == <<"Processing your voice message...">>
UnclearText ==
    <<"Sorry, I couldn't clearly understand the audio. Could you please repeat it or try typing?">>
VoiceErrorText ==
    <<"Sorry, something went wrong while processing your voice message. Please try again.">>
ExplainSuffix == <<"\n", "\n", "Please explain in more detail.">>
ButtonsBody == <<"Did that make sense to you?">>

\* json.dumps({"type": "clarification", "content": "Sorry, ..."})
GeminiErrorJson ==
    <<"{", "\"type\"", ":", " ", "\"clarification\"", ",", " ", "\"content\"",
      ":", " ", "\"Sorry, I encountered an error. Please try again.\"", "}">>
GeminiErrorText == <<"Sorry, I encountered an error. Please try again.">>

\* What the generative model may answer.
JsonAnswerX ==
    <<"{", "\"type\"", ":", "\"answer\"", ",", "\"content\"", ":", "\"x\"", "}">>
RawPlain == <<"hello">>
RawFencedTagged == <<Fence, "json", "\n">> \o JsonAnswerX \o <<"\n", Fence>>
RawFenced == <<Fence, "\n">> \o JsonAnswerX \o <<"\n", Fence, "\n">>
RawAnswer == JsonAnswerX
RawClarification ==
    <<"{", "\"type\"", ":", "\"clarification\"", ",", "\"content\"", ":",
      "\"what grade?\"", "}">>
RawNoType == <<"{", "\"content\"", ":", "\"x\"", "}">>
RawOtherType ==
    <<"{", "\"type\"", ":", "\"quiz\"", ",", "\"content\"", ":", "\"x\"", "}">>
RawNumberContent ==
    <<"{", "\"type\"", ":", "\"answer\"", ",", "\"content\"", ":", "7", "}">>
RawNullContent ==
    <<"{", "\"type\"", ":", "\"answer\"", ",", "\"content\"", ":", "null", "}">>
RawObjectContent ==
    <<"{", "\"type\"", ":", "\"answer\"", ",", "\"content\"", ":", "{", "}", "}">>
RawNoContent == <<"{", "\"type\"", ":", "\"answer\"", "}">>
RawNumber == <<"7">>
RawList == <<"[", "]">>
Raws == {RawPlain, RawFencedTagged, RawFenced, RawAnswer, RawClarification,
         RawNoType, RawOtherType, RawNumberContent, RawNullContent,
         RawObjectContent, RawNoContent, RawNumber, RawList}

\* What the users write: the n-th question, a full name, a topic switch.
QNames == <<"q1", "q2", "q3", "q4", "q5", "q6", "q7", "q8", "q9">>
Question(n) == <<QNames[n]>>
JaneDoe == <<"Jane", " ", "Doe">>
AnnLee == <<"Ann", " ", "Lee">>
NewTopic == <<"New", " ", "topic">>
Hi == <<"hi">>
Mumble == <<"mumble">>

(***************************************************************************)
(* The inbound message (msg of webhook), the user document, the session.   *)
(***************************************************************************)
Msg(entry, from, type, body, itype, bid, media) ==
    [entry |-> entry, from |-> from, type |-> type, body |-> body,
     itype |-> itype, bid |-> bid, media |-> media]
NoMsg == Msg(FALSE, "none", "none", <<>>, "none", "none", "none")
EmptyPayload == NoMsg
NoPhoneMsg == Msg(TRUE, "none", "none", <<>>, "none", "none", "none")
TextMsg(p, body) == Msg(TRUE, p, "text", body, "none", "none", "none")
ButtonMsg(p, bid) == Msg(TRUE, p, "interactive", <<>>, "button_reply", bid, "none")
ListReplyMsg(p) == Msg(TRUE, p, "interactive", <<>>, "list_reply", "none", "none")
AudioMsg(p, media) == Msg(TRUE, p, "audio", <<>>, "none", "none", media)

\* The events that carry no new question text.
FixedEvents ==
    {EmptyPayload, NoPhoneMsg}
    \cup {TextMsg(p, b) : p \in Phones, b \in {<<>>, Hi, JaneDoe, NewTopic}}
    \cup {ButtonMsg(p, b) : p \in Phones,
                            b \in {"understood", "explain_more", "skip"}}
    \cup {ListReplyMsg(p) : p \in Phones}
    \cup {AudioMsg(p, m) : p \in Phones, m \in MediaIds \cup {"none"}}

Timestamp(wall, tz) == [wall |-> wall, tz |-> tz]
Doc(name, account_type, credit_remaining, credit_reset, last_prompt) ==
    [name |-> name, account_type |-> account_type,
     credit_remaining |-> credit_remaining, credit_reset |-> credit_reset,
     last_prompt |-> last_prompt]
NoUser == Doc(PyNone, "none", 0, Timestamp(0, "naive"), PyNone)

\* The documents the store may hold when the process starts: left by earlier
\* runs of the program (a named free user) or set by the operator (premium).
ExistingDocs ==
    {Doc(AnnLee, "free", 1, Timestamp(1, "utc"), PyNone),
     Doc(JaneDoe, "premium", 0, Timestamp(0, "utc"), PyNone)}

\* The document as the store returns it: timestamps come back UTC-aware.
to_dict(doc) == [doc EXCEPT !.credit_reset.tz = "utc"]

\* get_or_create_user's fresh user: 20 credits, reset a day from now (naive).
NewUser(clk) == Doc(PyNone, "free", Ceiling, Timestamp(clk + Day, "naive"), PyNone)

NoObj == <<"none", 0>>
NewSession ==
    [history |-> <<>>, voice_cache |-> [m \in MediaIds |-> PyNone]]

\* A deque without maxlen, which the property of the history must notice.
DequeAppendUnbounded(h, x) == Append(h, x)

\* deque(maxlen=5).append
DequeAppend(h, x) ==
    IF Len(h) >= HistoryCap THEN Append(Tail(h), x) ELSE Append(h, x)

(***************************************************************************)
(* build_prompt                                                            *)
(***************************************************************************)
RECURSIVE JoinLines(_)
JoinLines(lines) ==
    IF lines = <<>> THEN <<>>
    ELSE IF Len(lines) = 1 THEN lines[1]
    ELSE lines[1] \o <<"\n">> \o JoinLines(Tail(lines))

build_prompt(user, history, message) ==
    LET nameLines ==
            IF user.name # PyNone /\ user.name # <<>>
            THEN << <<"User name: \"", Split(user.name)[1], "\"">> >>
            ELSE <<>>
        histLines ==
            IF history # <<>>
            THEN << <<"Recent messages:">> >>
                 \o [i \in 1..Len(history) |-> <<"- ">> \o history[i]]
            ELSE <<>>
    IN  JoinLines(<<SYSTEM_PROMPT>> \o nameLines \o histLines
                  \o << <<"Current message: \"">> \o message \o <<"\"">>,
                        <<"JSON:">> >>)

(***************************************************************************)
(* The response interpreter of process_user_message                        *)
(***************************************************************************)
Parsed(exc, rtype, content) == [exc |-> exc, rtype |-> rtype, content |-> content]

\* j = json.loads(clean); rtype = j.get("type"); content = j.get("content", "")
TryParse(clean) ==
    LET d == json_loads(clean) IN
    IF ~d.ok THEN Parsed("JSONDecodeError", PyNoneVal, PyNoneVal)
    ELSE IF d.val.py # "dict" THEN Parsed("AttributeError", PyNoneVal, PyNoneVal)
    ELSE Parsed("none", DictGet(d.val.items, "type", PyNoneVal),
                DictGet(d.val.items, "content", PyStr(<<>>)))

\* Faulty variants of the interpreter: an except clause for decoding errors
\* only, and no coercion of the content.
ParseResponseDecodeOnly(clean) ==
    LET r == TryParse(clean) IN
    IF r.exc = "JSONDecodeError"
    THEN Parsed("none", PyStr(<<"answer">>), PyStr(clean))
    ELSE r
CoerceNothing(content) == content

\* try: ... except Exception: rtype = "answer"; content = clean_response
ParseResponse(clean) ==
    LET r == TryParse(clean) IN
    IF r.exc # "none" THEN Parsed("none", PyStr(<<"answer">>), PyStr(clean)) ELSE r

\* if not isinstance(content, str): content = str(content)
CoerceContent(content) ==
    IF content.py = "str" THEN content ELSE PyStr(PyToStr(content))

Interpret(raw) ==
    LET r == ParseResponse(strip_fences(raw)) IN
    Parsed(r.exc, r.rtype, CoerceContent(r.content))

\* if rtype == "answer"
\* A faulty variant: buttons unless the model asked for a clarification.
WantsButtonsUnlessClarification(rtype) ==
    ~(rtype.py = "str" /\ rtype.v = <<"clarification">>)

\* if rtype == "answer": send_buttons
WantsButtons(rtype) == rtype.py = "str" /\ rtype.v = <<"answer">>

TextOut(body) == [type |-> "text", body |-> body]
ButtonsOut == [type |-> "interactive", body |-> ButtonsBody]

(***************************************************************************)
(* State.                                                                  *)
(*   db        the users collection of the store: phone -> document        *)
(*   sessions  the module-level dict: phone -> session object (or absent)  *)
(*   objs      the session objects built so far, <<phone, n>> the n-th     *)
(*             built for the phone                                         *)
(*   clock     datetime.utcnow()                                           *)
(*   nq        how many question texts the users have written so far       *)
(*   pc, loc   per thread: the place in the code and the local variables   *)
(*   obs       per thread: what the current turn did (messages sent, model *)
(*             calls, store fields written, appends, the credit it read,   *)
(*             the Python type of the content it sent, whether a store     *)
(*             write of it raised),                                        *)
(*             for the properties                                          *)
(***************************************************************************)
VARIABLES db, sessions, objs, clock, nq, pc, loc, obs

vars == <<db, sessions, objs, clock, nq, pc, loc, obs>>

IdleLoc ==
    [msg |-> NoMsg, phone |-> "none", user |-> NoUser, now |-> 0,
     sess |-> NoObj, ret |-> "none", media |-> "none", text |-> <<>>,
     prompt |-> <<>>, guarded |-> FALSE]

IdleObs ==
    [out |-> <<>>, calls |-> 0, raised |-> FALSE, asked |-> <<>>,
     raw |-> <<>>, rtype |-> PyNoneVal, appended |-> 0, wrote |-> {},
     read |-> 0, ctype |-> "none", wfail |-> FALSE, status |-> "none"]

Init ==
    /\ db \in UNION {[S -> ExistingDocs] : S \in SUBSET Phones}
    /\ sessions = [p \in Phones |-> NoObj]
    /\ objs = [o \in {} |-> NewSession]
    /\ clock = 0
    /\ nq = 0
    /\ pc = [t \in Threads |-> "idle"]
    /\ loc = [t \in Threads |-> IdleLoc]
    /\ obs = [t \in Threads |-> IdleObs]

(***************************************************************************)
(* Small steps shared by the actions.                                      *)
(***************************************************************************)
Goto(t, place) == pc' = [pc EXCEPT ![t] = place]

\* return "OK", 200 (a webhook thread) or the end of a voice thread
Return(t, o) ==
    /\ pc' = [pc EXCEPT ![t] = "done"]
    /\ obs' = [obs EXCEPT ![t] = [o EXCEPT !.status = "200"]]

Sent(o, m) == [o EXCEPT !.out = Append(@, m)]

\* An exception leaves the function: process_voice_message's try block
\* answers it with a message, anywhere else it ends the request (500) or
\* the thread.
Raise(t, o) ==
    /\ pc' = [pc EXCEPT ![t] = "done"]
    /\ obs' = [obs EXCEPT ![t] =
                 IF loc[t].guarded
                 THEN [o EXCEPT !.out = Append(@, [type |-> "text", body |-> VoiceErrorText]),
                                !.status = "200"]
                 ELSE [o EXCEPT !.status = "500"]]
Wrote(o, fields) == [o EXCEPT !.wrote = @ \cup fields]

(***************************************************************************)
(* The quota gate's decisions (webhook, "Credits reset & check").          *)
(***************************************************************************)
\* hasattr(rt, "to_datetime") ...; if rt.tzinfo: rt = rt.replace(tzinfo=None)
NormalizeReset(rt) == IF rt.tz # "naive" THEN Timestamp(rt.wall, "naive") ELSE rt

\* Faulty variants of the gate and of onboarding, which the properties of
\* the quota and of onboarding must tell from the program's.
ResetOverdue(user, now) == now > NormalizeReset(user.credit_reset).wall
ExhaustedBelowZero(user) == user.credit_remaining < 0
ExhaustedNever(user) == FALSE
IsAnyName(text) == Len(Split(text)) >= 1

\* if now >= rt
ResetDue(user, now) == now >= NormalizeReset(user.credit_reset).wall

\* if user["credit_remaining"] <= 0
Exhausted(user) == user.credit_remaining <= 0

\* if len(text.split()) >= 2
IsFullName(text) == Len(Split(text)) >= 2

\* A faulty variant: the gate for every tier.
AfterUserGatesAll(user, now) ==
    IF user.name = PyNone THEN "onboarding"
    ELSE IF ResetDue(user, now) THEN "credit_reset" ELSE "credit_check"

\* Where webhook goes once it holds the user and the time.
AfterUser(user, now) ==
    IF user.name = PyNone THEN "onboarding"
    ELSE IF user.account_type = "free"
         THEN IF ResetDue(user, now) THEN "credit_reset" ELSE "credit_check"
    ELSE "route"

(***************************************************************************)
(* webhook: the request arrives, the user is read or created.              *)
(***************************************************************************)
\* The users ask their next question until it is taken into the history.
NewQuestions ==
    IF nq < MaxQ THEN {TextMsg(p, Question(nq + 1)) : p \in Phones} ELSE {}

VoiceThreadFree == \E v \in VoiceThreads : pc[v] = "idle"

\* data = request.json or {} ... phone = msg.get("from"); get_or_create_user
Receive(t, msg) ==
    /\ pc[t] = "idle"
    /\ msg.media # "none" => VoiceThreadFree
    /\ IF ~msg.entry \/ msg.from = "none"
       THEN /\ Return(t, obs[t])
            /\ loc' = [loc EXCEPT ![t].msg = msg]
       ELSE IF msg.from \in DOMAIN db
            THEN LET user == to_dict(db[msg.from]) IN
                 /\ loc' = [loc EXCEPT ![t].msg = msg, ![t].phone = msg.from,
                                       ![t].user = user, ![t].now = clock]
                 /\ obs' = [obs EXCEPT ![t].read = user.credit_remaining]
                 /\ Goto(t, AfterUser(user, clock))
            ELSE /\ loc' = [loc EXCEPT ![t].msg = msg, ![t].phone = msg.from,
                                       ![t].user = NewUser(clock)]
                 /\ obs' = [obs EXCEPT ![t].read = Ceiling]
                 /\ Goto(t, "create")
    /\ UNCHANGED <<db, sessions, objs, clock, nq>>

\* get_or_create_user: ref.set(user); return user.  Then now = utcnow().
CreateUser(t) ==
    /\ pc[t] = "create"
    /\ LET p == loc[t].phone
           user == loc[t].user
       IN  /\ db' = [q \in DOMAIN db \cup {p} |-> IF q = p THEN user ELSE db[q]]
           /\ loc' = [loc EXCEPT ![t].now = clock]
           /\ Goto(t, AfterUser(user, clock))
    /\ UNCHANGED <<sessions, objs, clock, nq, obs>>

\* Name onboarding
Onboarding(t) ==
    /\ pc[t] = "onboarding"
    /\ LET p == loc[t].phone
           text == loc[t].msg.body
       IN  IF IsFullName(text)
           THEN /\ db' = [db EXCEPT ![p].name = text]
                /\ Return(t, Sent(Wrote(obs[t], {"name"}),
                                  TextOut(WelcomeText(Split(text)[1]))))
           ELSE /\ db' = db
                /\ Return(t, Sent(obs[t], TextOut(AskNameText)))
    /\ UNCHANGED <<sessions, objs, clock, nq, loc>>

\* A faulty variant: the reset time is not advanced.
NextResetNow(now) == Timestamp(now, "naive")

\* credit_reset=now + timedelta(days=1)
NextReset(now) == Timestamp(now + Day, "naive")

\* if now >= rt: update_user(credit_remaining=20, credit_reset=now + 1 day)
CreditReset(t) ==
    /\ pc[t] = "credit_reset"
    /\ LET p == loc[t].phone IN
       /\ db' = [db EXCEPT ![p].credit_remaining = Ceiling,
                           ![p].credit_reset = NextReset(loc[t].now)]
       /\ loc' = [loc EXCEPT ![t].user.credit_remaining = Ceiling]
       /\ obs' = [obs EXCEPT ![t] = Wrote(@, {"credit_remaining", "credit_reset"})]
       /\ Goto(t, "credit_check")
    /\ UNCHANGED <<sessions, objs, clock, nq>>

\* if credit_remaining <= 0: notice, return; else update_user(credit_remaining - 1)
CreditCheck(t) ==
    /\ pc[t] = "credit_check"
    /\ LET p == loc[t].phone
           user == loc[t].user
       IN  IF Exhausted(user)
           THEN /\ db' = db
                /\ Return(t, Sent(obs[t], TextOut(LimitText)))
           ELSE /\ db' = [db EXCEPT ![p].credit_remaining = user.credit_remaining - 1]
                /\ obs' = [obs EXCEPT ![t] = Wrote(@, {"credit_remaining"})]
                /\ Goto(t, "route")
    /\ UNCHANGED <<sessions, objs, clock, nq, loc>>

(***************************************************************************)
(* The Model Gateway.                                                      *)
(***************************************************************************)
ModelRaises == <<"<exception>">>
GeminiOutcomes == Raws \cup {ModelRaises}

\* A gateway without its except clause: the exception reaches the caller.
get_gemini_uncaught(outcome) ==
    IF outcome = ModelRaises THEN ModelRaises ELSE Strip(outcome)

\* try: return model.generate_content(prompt).text.strip()
\* except Exception: return json.dumps({"type": "clarification", ...})
get_gemini(outcome) ==
    IF outcome = ModelRaises THEN GeminiErrorJson ELSE Strip(outcome)

Called(o, prompt, outcome) ==
    [o EXCEPT !.calls = @ + 1, !.asked = prompt,
              !.raised = @ \/ outcome = ModelRaises, !.raw = outcome]

(***************************************************************************)
(* webhook: interactive replies, voice messages, text messages.            *)
(***************************************************************************)
\* elif bid == "explain_more" and user.get("last_prompt")
HasLastPrompt(user) == user.last_prompt # PyNone /\ user.last_prompt # <<>>

IsExplainMore(t) ==
    /\ loc[t].msg.type = "interactive"
    /\ loc[t].msg.itype = "button_reply"
    /\ loc[t].msg.bid = "explain_more"
    /\ HasLastPrompt(loc[t].user)

\* Interactive replies, other than an explain_more that calls the model
ButtonReply(t) ==
    /\ pc[t] = "route"
    /\ loc[t].msg.type = "interactive"
    /\ ~IsExplainMore(t)
    /\ IF loc[t].msg.itype = "button_reply" /\ loc[t].msg.bid = "understood"
       THEN Return(t, Sent(obs[t], TextOut(GreatText)))
       ELSE Return(t, obs[t])
    /\ UNCHANGED <<db, sessions, objs, clock, nq, loc>>

\* more = get_gemini(last_prompt + suffix); send_text(strip_fences(more)); send_buttons
ExplainMore(t, outcome) ==
    /\ pc[t] = "route"
    /\ IsExplainMore(t)
    /\ LET asked == loc[t].user.last_prompt \o ExplainSuffix
           more == get_gemini(outcome)
           o == Called(obs[t], asked, outcome)
       IN  IF more = ModelRaises
           THEN Raise(t, o)
           ELSE Return(t, Sent(Sent(o, TextOut(strip_fences(more))), ButtonsOut))
    /\ UNCHANGED <<db, sessions, objs, clock, nq, loc>>

IsVoice(msg) == msg.type \in {"audio", "voice"} /\ msg.media # "none"

\* threading.Thread(target=process_voice_message, args=(phone, media_id, user))
SpawnVoice(t, v) ==
    /\ pc[t] = "route"
    /\ IsVoice(loc[t].msg)
    /\ v \in VoiceThreads /\ pc[v] = "idle"
    /\ pc' = [pc EXCEPT ![t] = "done", ![v] = "v_start"]
    /\ loc' = [loc EXCEPT ![v].phone = loc[t].phone, ![v].media = loc[t].msg.media,
                          ![v].user = loc[t].user, ![v].ret = "voice"]
    /\ obs' = [obs EXCEPT ![t] = [Sent(@, TextOut(ProcessingText))
                                    EXCEPT !.status = "200"]]
    /\ UNCHANGED <<db, sessions, objs, clock, nq>>

\* text = msg.get("text", {}).get("body", "").strip(); if text: process_user_message
TextMessage(t) ==
    /\ pc[t] = "route"
    /\ loc[t].msg.type # "interactive"
    /\ ~IsVoice(loc[t].msg)
    /\ LET text == Strip(loc[t].msg.body) IN
       IF text # <<>>
       THEN /\ loc' = [loc EXCEPT ![t].text = text, ![t].ret = "pum"]
            /\ Goto(t, "ens_check")
            /\ obs' = obs
       ELSE /\ loc' = loc
            /\ Return(t, obs[t])
    /\ UNCHANGED <<db, sessions, objs, clock, nq>>

(***************************************************************************)
(* ensure_session                                                          *)
(***************************************************************************)
\* if phone not in sessions
EnsureCheck(t) ==
    /\ pc[t] \in {"ens_check", "v_start"}
    /\ Goto(t, IF sessions[loc[t].phone] = NoObj THEN "ens_install" ELSE "ens_return")
    /\ UNCHANGED <<db, sessions, objs, clock, nq, loc, obs>>

\* sessions[phone] = {"history": deque(maxlen=5), "voice_cache": {}, ...}
EnsureInstall(t) ==
    /\ pc[t] = "ens_install"
    /\ LET p == loc[t].phone
           o == <<p, Cardinality({x \in DOMAIN objs : x[1] = p}) + 1>>
       IN
       /\ objs' = [x \in DOMAIN objs \cup {o} |-> IF x = o THEN NewSession ELSE objs[x]]
       /\ sessions' = [sessions EXCEPT ![loc[t].phone] = o]
    /\ Goto(t, "ens_return")
    /\ UNCHANGED <<db, clock, nq, loc, obs>>

\* return sessions[phone]
EnsureReturn(t) ==
    /\ pc[t] = "ens_return"
    /\ loc' = [loc EXCEPT ![t].sess = sessions[loc[t].phone]]
    /\ Goto(t, IF loc[t].ret = "voice" THEN "v_lookup" ELSE "pum_append")
    /\ UNCHANGED <<db, sessions, objs, clock, nq, obs>>

(***************************************************************************)
(* process_user_message                                                    *)
(***************************************************************************)
\* if "switch subject" in text.lower() or "new topic" in text.lower()
IsTopicSwitch(text) ==
    \/ Contains(<<"switch", " ", "subject">>, Lower(text))
    \/ Contains(<<"new", " ", "topic">>, Lower(text))

\* sess["history"].append(text)
PumAppend(t) ==
    /\ pc[t] = "pum_append"
    /\ objs' = [objs EXCEPT ![loc[t].sess].history = DequeAppend(@, loc[t].text)]
    /\ obs' = [obs EXCEPT ![t].appended = @ + 1]
    /\ nq' = IF nq < MaxQ /\ loc[t].text = Question(nq + 1) THEN nq + 1 ELSE nq
    /\ Goto(t, IF IsTopicSwitch(loc[t].text) THEN "pum_clear" ELSE "pum_model")
    /\ UNCHANGED <<db, sessions, clock, loc>>

\* sess["history"].clear(); sess["history"].append(text)
PumClear(t) ==
    /\ pc[t] = "pum_clear"
    /\ objs' = [objs EXCEPT ![loc[t].sess].history = DequeAppend(<<>>, loc[t].text)]
    /\ Goto(t, "pum_model")
    /\ UNCHANGED <<db, sessions, clock, nq, loc, obs>>

\* list(sess["history"])[:-1]
AllButLast(h) == IF h = <<>> THEN <<>> ELSE SubSeq(h, 1, Len(h) - 1)

\* The messages process_user_message sends for a model response.
Replies(r) ==
    IF WantsButtons(r.rtype)
    THEN <<TextOut(r.content.v), ButtonsOut>>
    ELSE <<TextOut(r.content.v)>>

\* prompt = build_prompt(...); raw_response = get_gemini(prompt); parse; send
PumModel(t, outcome) ==
    /\ pc[t] = "pum_model"
    /\ LET prompt == build_prompt(loc[t].user,
                                  AllButLast(objs[loc[t].sess].history),
                                  loc[t].text)
           raw_response == get_gemini(outcome)
           r == Interpret(raw_response)
           o == Called(obs[t], prompt, outcome)
       IN  /\ loc' = [loc EXCEPT ![t].prompt = prompt]
           /\ IF raw_response = ModelRaises \/ r.exc # "none"
              THEN Raise(t, o)
              ELSE /\ obs' = [obs EXCEPT ![t] = [o EXCEPT !.out = @ \o Replies(r),
                                                         !.rtype = r.rtype,
                                                         !.ctype = r.content.py]]
                   /\ Goto(t, "pum_save")
    /\ UNCHANGED <<db, sessions, objs, clock, nq>>

\* update_user(phone, last_prompt=prompt)
PumSave(t) ==
    /\ pc[t] = "pum_save"
    /\ db' = [db EXCEPT ![loc[t].phone].last_prompt = loc[t].prompt]
    /\ Return(t, Wrote(obs[t], {"last_prompt"}))
    /\ UNCHANGED <<sessions, objs, clock, nq, loc>>

(***************************************************************************)
(* process_voice_message                                                   *)
(***************************************************************************)
TranscriptionFails == [transcript |-> <<"<exception>">>, confidence |-> 0]

Heard(transcript, confidence) ==
    [transcript |-> transcript, confidence |-> confidence]

\* What download, preprocess_audio and transcribe_audio_google may give: a
\* failure, silence, words heard at the threshold, words heard below it.
Transcriptions ==
    {TranscriptionFails, Heard(<<>>, 90), Heard(Hi, MinConfidence),
     Heard(Mumble, MinConfidence - 1)}

\* if confidence < 0.6 or not transcript.strip()
Unclear(transcript, confidence) ==
    confidence < MinConfidence \/ Strip(transcript) = <<>>

\* if media_id in voice_cache: transcript = voice_cache[media_id]
VoiceLookup(t) ==
    /\ pc[t] = "v_lookup"
    /\ LET cached == objs[loc[t].sess].voice_cache[loc[t].media] IN
       IF cached # PyNone
       THEN /\ loc' = [loc EXCEPT ![t].text = cached, ![t].ret = "pum"]
            /\ Goto(t, "ens_check")
       ELSE /\ loc' = loc
            /\ Goto(t, "v_transcribe")
    /\ UNCHANGED <<db, sessions, objs, clock, nq, obs>>

\* download, transcribe, voice_cache[media_id] = transcript, threshold
VoiceTranscribe(t, res) ==
    /\ pc[t] = "v_transcribe"
    /\ IF res = TranscriptionFails
       THEN /\ Return(t, Sent(obs[t], TextOut(VoiceErrorText)))
            /\ UNCHANGED <<objs, loc>>
       ELSE /\ objs' = [objs EXCEPT ![loc[t].sess].voice_cache[loc[t].media] =
                                        res.transcript]
            /\ IF Unclear(res.transcript, res.confidence)
               THEN /\ Return(t, Sent(obs[t], TextOut(UnclearText)))
                    /\ loc' = loc
               ELSE /\ loc' = [loc EXCEPT ![t].text = res.transcript,
                                          ![t].ret = "pum", ![t].guarded = TRUE]
                    /\ Goto(t, "ens_check")
                    /\ obs' = obs
    /\ UNCHANGED <<db, sessions, clock, nq>>

(***************************************************************************)
(* The end of a turn, the passing of time, the specification.              *)
(***************************************************************************)
\* The request thread takes the next request; the voice thread is gone.
Finish(t) ==
    /\ pc[t] = "done"
    /\ pc' = [pc EXCEPT ![t] = "idle"]
    /\ loc' = [loc EXCEPT ![t] = IdleLoc]
    /\ obs' = [obs EXCEPT ![t] = IdleObs]
    /\ UNCHANGED <<db, sessions, objs, clock, nq>>

Tick ==
    /\ clock < MaxTime
    /\ clock' = clock + 1
    /\ UNCHANGED <<db, sessions, objs, nq, pc, loc, obs>>

(***************************************************************************)
(* Spec: one request at a time.  A request thread runs its turn without    *)
(* being preempted, the voice thread it started runs after it, and the     *)
(* next request arrives when both are through.                             *)
(***************************************************************************)
SerialWeb == {"w1"}
SerialVoice == {"v1"}
SerialThreads == SerialWeb \cup SerialVoice
Quiet(t) == \A u \in Threads \ {t} : pc[u] \in {"idle", "v_start"}
Ready(t) == \A u \in Threads \ {t} : pc[u] = "idle"

\* Users write their name when they are asked for it.
NameWhenAsked(msg) ==
    IF msg.body = JaneDoe /\ msg.from \in DOMAIN db
    THEN db[msg.from].name = PyNone
    ELSE TRUE

Next ==
    \/ \E t \in SerialWeb : \E msg \in FixedEvents :
          Ready(t) /\ NameWhenAsked(msg) /\ Receive(t, msg)
    \/ \E t \in SerialWeb : Quiet(t) /\ CreateUser(t)
    \/ \E t \in SerialWeb : Quiet(t) /\ Onboarding(t)
    \/ \E t \in SerialWeb : Quiet(t) /\ CreditReset(t)
    \/ \E t \in SerialWeb : Quiet(t) /\ CreditCheck(t)
    \/ \E t \in SerialWeb : Quiet(t) /\ ButtonReply(t)
    \/ \E t \in SerialWeb : \E outcome \in GeminiOutcomes :
          Quiet(t) /\ ExplainMore(t, outcome)
    \/ \E t \in SerialWeb : \E v \in SerialVoice : Quiet(t) /\ SpawnVoice(t, v)
    \/ \E t \in SerialWeb : Quiet(t) /\ TextMessage(t)
    \/ \E t \in SerialThreads :
          (IF pc[t] = "v_start" THEN Ready(t) ELSE Quiet(t)) /\ EnsureCheck(t)
    \/ \E t \in SerialThreads : Quiet(t) /\ EnsureInstall(t)
    \/ \E t \in SerialThreads : Quiet(t) /\ EnsureReturn(t)
    \/ \E t \in SerialThreads : Quiet(t) /\ PumAppend(t)
    \/ \E t \in SerialThreads : Quiet(t) /\ PumClear(t)
    \/ \E t \in SerialThreads : \E outcome \in GeminiOutcomes :
          Quiet(t) /\ PumModel(t, outcome)
    \/ \E t \in SerialThreads : Quiet(t) /\ PumSave(t)
    \/ \E t \in SerialVoice : Quiet(t) /\ VoiceLookup(t)
    \/ \E t \in SerialVoice : \E res \in {TranscriptionFails, Heard(Hi, MinConfidence)} :
          Quiet(t) /\ VoiceTranscribe(t, res)
    \/ \E t \in SerialThreads : Quiet(t) /\ Finish(t)
    \/ (\A t \in Threads : pc[t] = "idle") /\ Tick

Spec == Init /\ [][Next]_vars

(***************************************************************************)
(* Properties of the quota gate and of onboarding.                         *)
(***************************************************************************)
InTurn(t) == pc[t] # "idle" /\ loc[t].phone # "none"

Named(t) == loc[t].user.name # PyNone

\* The turn of a named free user who had no credit left when the turn read
\* the document, at a time before the reset time it read.
C1_Rejected(t) ==
    /\ InTurn(t) /\ Named(t)
    /\ loc[t].user.account_type = "free"
    /\ obs[t].read <= 0
    /\ loc[t].now < loc[t].user.credit_reset.wall

\* C1: a turn of a named free user with quota_remaining <= 0 and now before
\* reset_at stops at the gate: its only message is the limit notice, it does
\* not call the model, appends nothing to the history and writes nothing to
\* the user's document, which stays as the turn read it.
C1_GateRejects ==
    \A t \in WebThreads :
       C1_Rejected(t) =>
          /\ pc[t] \in {"credit_check", "done"}
          /\ obs[t].out = IF pc[t] = "done" THEN <<TextOut(LimitText)>> ELSE <<>>
          /\ obs[t].calls = 0
          /\ obs[t].appended = 0
          /\ obs[t].wrote = {}
          /\ to_dict(db[loc[t].phone]) = loc[t].user
          /\ \A v \in VoiceThreads : pc[v] = "idle"

\* A text message with content was rejected at the gate.
C1_Witness ==
    \E t \in WebThreads :
       /\ C1_Rejected(t) /\ pc[t] = "done"
       /\ loc[t].msg.type = "text" /\ loc[t].msg.body = Hi
       /\ obs[t].out = <<TextOut(LimitText)>>

\* The turn of a named free user at or after the reset time it read.
C2_Due(t) ==
    /\ InTurn(t) /\ Named(t)
    /\ loc[t].user.account_type = "free"
    /\ loc[t].now >= loc[t].user.credit_reset.wall

PastGate == {"route", "ens_check", "ens_install", "ens_return", "pum_append",
             "pum_clear", "pum_model", "pum_save", "done"}

\* C2: a turn of a named free user at now >= reset_at is not rejected, whatever
\* the quota it started with: it writes the reset and the decrement, and the
\* stored quota is the ceiling minus one (19) from the gate to the turn's end.
C2_ResetThenDecrement ==
    \A t \in WebThreads :
       C2_Due(t) =>
          /\ pc[t] \in PastGate \cup {"credit_reset", "credit_check"}
          /\ \A i \in 1..Len(obs[t].out) : obs[t].out[i] # TextOut(LimitText)
          /\ pc[t] \in PastGate =>
                /\ db[loc[t].phone].credit_remaining = Ceiling - 1
                /\ db[loc[t].phone].credit_remaining = 19
                /\ db[loc[t].phone].credit_reset = Timestamp(loc[t].now + Day, "naive")
                /\ {"credit_remaining", "credit_reset"} \subseteq obs[t].wrote

\* A turn that started with no credit left ended with 19 stored.
C2_Witness ==
    \E t \in WebThreads :
       /\ C2_Due(t) /\ pc[t] = "done"
       /\ obs[t].read = 0
       /\ db[loc[t].phone].credit_remaining = 19

ModelPlaces == {"ens_check", "ens_install", "ens_return", "pum_append",
                "pum_clear", "pum_model", "pum_save", "v_start", "v_lookup",
                "v_transcribe"}

\* C3: a turn of a user without a name does onboarding only.  It writes no
\* quota field, calls no model and appends nothing; with a text of at least
\* two whitespace-separated tokens it stores the whole text as the name and
\* prompts for a topic with the first token, otherwise it leaves the name
\* unset and asks for the full name.  No thread answers content for a user
\* without a name.
C3_Onboarding ==
    /\ \A t \in WebThreads :
          (InTurn(t) /\ ~Named(t)) =>
             LET text == loc[t].msg.body
                 full == Len(Split(text)) >= 2
             IN
             /\ pc[t] \in {"create", "onboarding", "done"}
             /\ obs[t].calls = 0
             /\ obs[t].appended = 0
             /\ obs[t].wrote \subseteq {"name"}
             /\ pc[t] # "done" => obs[t].out = <<>> /\ obs[t].wrote = {}
             /\ (pc[t] = "done" /\ full) =>
                   /\ obs[t].out = <<TextOut(WelcomeText(Split(text)[1]))>>
                   /\ obs[t].wrote = {"name"}
                   /\ db[loc[t].phone].name = text
             /\ (pc[t] = "done" /\ ~full) =>
                   /\ obs[t].out = <<TextOut(AskNameText)>>
                   /\ obs[t].wrote = {}
                   /\ db[loc[t].phone].name = PyNone
             /\ pc[t] # "create" =>
                   /\ db[loc[t].phone].credit_remaining = loc[t].user.credit_remaining
                   /\ db[loc[t].phone].credit_reset.wall = loc[t].user.credit_reset.wall
    /\ \A t \in Threads :
          pc[t] \in ModelPlaces => Named(t) /\ db[loc[t].phone].name # PyNone

\* A new user sent a full name: it is stored, and the topic prompt was sent.
C3_Witness ==
    \E t \in WebThreads :
       /\ InTurn(t) /\ ~Named(t) /\ pc[t] = "done"
       /\ loc[t].msg.body = JaneDoe
       /\ db[loc[t].phone].name = JaneDoe
       /\ obs[t].out = <<TextOut(WelcomeText("Jane"))>>

\* A user without a name sent one word and was asked for the full name.
C3_WitnessOneWord ==
    \E t \in WebThreads :
       /\ InTurn(t) /\ ~Named(t) /\ pc[t] = "done"
       /\ loc[t].msg.body = Hi
       /\ obs[t].out = <<TextOut(AskNameText)>>

(***************************************************************************)
(* Properties of content turns and of button replies.                      *)
(***************************************************************************)
\* The thread is in process_user_message and its exchange with the model is
\* over.
Answered(t) == pc[t] \in {"pum_save", "done"} /\ obs[t].appended > 0

IsKind(rtype, kind) == rtype = PyStr(<<kind>>)

HasButtons(o) == \E i \in 1..Len(o.out) : o.out[i] = ButtonsOut

\* C5: when the model call of a content turn raises, one fixed apology is
\* sent as text, without buttons, no second model call is made and the
\* request is not answered with a server error.
C5_ModelFailure ==
    \A t \in Threads :
       (Answered(t) /\ obs[t].raised) =>
          /\ obs[t].out = <<TextOut(GeminiErrorText)>>
          /\ obs[t].calls = 1
          /\ obs[t].status # "500"
          /\ pc[t] = "done" => obs[t].status = "200"

\* A text turn whose model call raised has ended.
C5_Witness ==
    \E t \in WebThreads :
       /\ Answered(t) /\ obs[t].raised /\ pc[t] = "done"
       /\ obs[t].out = <<TextOut(GeminiErrorText)>>
       /\ obs[t].status = "200"

\* The turn went past onboarding and the gate and handled an explain_more
\* button reply of a user without a last prompt.
C6_NoLastPrompt(t) ==
    /\ InTurn(t) /\ Named(t)
    /\ pc[t] = "done"
    /\ loc[t].msg.type = "interactive"
    /\ loc[t].msg.itype = "button_reply"
    /\ loc[t].msg.bid = "explain_more"
    /\ loc[t].user.last_prompt = PyNone
    /\ \A i \in 1..Len(obs[t].out) : obs[t].out[i] # TextOut(LimitText)

\* C6: an explain_more button reply from a user whose last_prompt is absent
\* never calls the model and sends the user a message asking them to restate
\* their question.
C6_ExplainMoreAsksToRestate ==
    \A t \in WebThreads :
       C6_NoLastPrompt(t) =>
          /\ obs[t].calls = 0
          /\ \E i \in 1..Len(obs[t].out) : obs[t].out[i].type = "text"

\* C7: the interpreter turns the fenced, tagged JSON answer into kind answer
\* with content x, and the plain text hello into kind answer with content
\* hello.
C7_Interpreter ==
    \A t \in Threads :
       Answered(t) =>
          /\ obs[t].raw = RawFencedTagged =>
                /\ IsKind(obs[t].rtype, "answer")
                /\ obs[t].out[1] = TextOut(<<"x">>)
          /\ obs[t].raw = RawPlain =>
                /\ IsKind(obs[t].rtype, "answer")
                /\ obs[t].out[1] = TextOut(<<"hello">>)

\* C9: in a content turn the buttons are sent exactly when the interpreted
\* kind is answer, and after the content; a clarification has no buttons.
C9_ButtonsOnlyForAnswers ==
    \A t \in Threads :
       Answered(t) =>
          /\ Len(obs[t].out) >= 1
          /\ obs[t].out[1].type = "text"
          /\ IF IsKind(obs[t].rtype, "answer")
             THEN Len(obs[t].out) = 2 /\ obs[t].out[2] = ButtonsOut
             ELSE Len(obs[t].out) = 1
          /\ IsKind(obs[t].rtype, "clarification") => ~HasButtons(obs[t])

\* A clarification was sent without buttons.
C9_Witness ==
    \E t \in Threads :
       /\ Answered(t)
       /\ obs[t].raw = RawClarification
       /\ IsKind(obs[t].rtype, "clarification")
       /\ obs[t].out = <<TextOut(<<"what grade?">>)>>

\* An answer was sent, the buttons after it.
C9_WitnessAnswer ==
    \E t \in Threads :
       /\ Answered(t)
       /\ obs[t].raw = RawAnswer
       /\ obs[t].out = <<TextOut(<<"x">>), ButtonsOut>>

\* C10: a decoded JSON object whose type is absent or unrecognized is taken
\* as an answer, so the buttons are attached.
C10_DefaultKindIsAnswer ==
    \A t \in Threads :
       (Answered(t) /\ obs[t].raw \in {RawNoType, RawOtherType}) =>
          HasButtons(obs[t])

(***************************************************************************)
(* SpecDialogue: one request at a time, and every question differs from    *)
(* the ones before it, so that the history shows which texts it kept.      *)
(* The user sends the next question, a topic switch, or the name when      *)
(* asked for it.                                                           *)
(***************************************************************************)
DialogueEvents ==
    NewQuestions \cup {TextMsg(p, body) : p \in Phones, body \in {JaneDoe, NewTopic}}

DialogueOutcomes == {RawAnswer, ModelRaises}

NextDialogue ==
    \/ \E t \in SerialWeb : \E msg \in DialogueEvents :
          Ready(t) /\ NameWhenAsked(msg) /\ Receive(t, msg)
    \/ \E t \in SerialWeb : CreateUser(t)
    \/ \E t \in SerialWeb : Onboarding(t)
    \/ \E t \in SerialWeb : CreditReset(t)
    \/ \E t \in SerialWeb : CreditCheck(t)
    \/ \E t \in SerialWeb : TextMessage(t)
    \/ \E t \in SerialWeb : EnsureCheck(t)
    \/ \E t \in SerialWeb : EnsureInstall(t)
    \/ \E t \in SerialWeb : EnsureReturn(t)
    \/ \E t \in SerialWeb : PumAppend(t)
    \/ \E t \in SerialWeb : PumClear(t)
    \/ \E t \in SerialWeb : \E outcome \in DialogueOutcomes : PumModel(t, outcome)
    \/ \E t \in SerialWeb : PumSave(t)
    \/ \E t \in SerialWeb : Finish(t)
    \/ (\A t \in Threads : pc[t] = "idle") /\ Tick

SpecDialogue == Init /\ [][NextDialogue]_vars

Asked == {Question(k) : k \in 1..nq}

QuestionNo(text) == CHOOSE k \in 1..nq : text = Question(k)

Clearing == \E t \in Threads : pc[t] = "pum_clear"

\* The history holds texts the user sent, in the order they were sent and
\* without gaps: questions follow each other as they were asked, and a topic
\* switch is the first entry, or the last until the clear that follows it.
InSendingOrder(h) ==
    /\ \A i \in 1..Len(h) : h[i] \in Asked \cup {NewTopic}
    /\ \A i \in 1..Len(h) :
          h[i] = NewTopic => i = 1 \/ (i = Len(h) /\ Clearing)
    /\ \A i \in 1..(Len(h) - 1) :
          (h[i] \in Asked /\ h[i + 1] \in Asked) =>
             QuestionNo(h[i + 1]) = QuestionNo(h[i]) + 1

\* The newest text is kept: the last question of the history, if it has
\* one, is the last question taken, and nothing follows it but the topic
\* switch about to clear it.
NewestKept(h) ==
    \A i \in 1..Len(h) :
       (h[i] \in Asked /\ (i = Len(h) \/ h[i + 1] = NewTopic)) => h[i] = Question(nq)

\* C4: a session's history never holds more than 5 texts, holds them in the
\* order they were sent, keeps the newest and drops the oldest: of six or
\* more questions in a row the first ones are gone and the last five remain
\* in order.
C4_HistoryWindow ==
    \A o \in DOMAIN objs :
       LET h == objs[o].history IN
       /\ Len(h) <= HistoryCap
       /\ InSendingOrder(h)
       /\ NewestKept(h)
       /\ \A k \in 1..nq : Question(k) \in {h[i] : i \in 1..Len(h)} => k > nq - HistoryCap

\* Six questions in a row: the first is gone, the other five are there.
C4_Witness ==
    \E o \in DOMAIN objs :
       /\ nq = 6
       /\ objs[o].history =
             <<Question(2), Question(3), Question(4), Question(5), Question(6)>>

(***************************************************************************)
(* SpecThreaded: two requests at a time, their steps interleaved in any    *)
(* order, for the turns that end at onboarding, at the gate or right after *)
(* it (a text message without content).                                    *)
(***************************************************************************)
ThreadedEvents == {TextMsg(p, body) : p \in Phones, body \in {<<>>, JaneDoe}}

NextThreaded ==
    \/ \E t \in WebThreads : \E msg \in ThreadedEvents :
          NameWhenAsked(msg) /\ Receive(t, msg)
    \/ \E t \in WebThreads : CreateUser(t)
    \/ \E t \in WebThreads : Onboarding(t)
    \/ \E t \in WebThreads : CreditReset(t)
    \/ \E t \in WebThreads : CreditCheck(t)
    \/ \E t \in WebThreads : TextMessage(t)
    \/ \E t \in WebThreads : Finish(t)
    \/ Tick

SpecThreaded == Init /\ [][NextThreaded]_vars

\* C8: the stored quota of a free user is never below 0 and never above the
\* ceiling of the tier, however the steps of concurrent turns interleave.
C8_QuotaInRange ==
    \A p \in DOMAIN db :
       db[p].account_type = "free" =>
          db[p].credit_remaining >= 0 /\ db[p].credit_remaining <= Ceiling

\* Two concurrent turns read the same quota and both wrote their decrement:
\* the store holds one decrement.
C8_Witness ==
    /\ \A t \in WebThreads :
          /\ pc[t] = "done" /\ InTurn(t) /\ Named(t)
          /\ "credit_remaining" \in obs[t].wrote
    /\ obs["w1"].read = obs["w2"].read
    /\ loc["w1"].phone = loc["w2"].phone
    /\ db[loc["w1"].phone].credit_remaining = obs["w1"].read - 1

(***************************************************************************)
(* Properties of the interpreter's fail-open behaviour.                    *)
(***************************************************************************)
\* What str() of the content, or the fallback, gives for each response that
\* is not the {type, content} object of strings.
ExpectedContent(raw) ==
    CASE raw = RawPlain -> <<"hello">>
      [] raw = RawNumberContent -> <<"7">>
      [] raw = RawNullContent -> <<"None">>
      [] raw = RawObjectContent -> <<"{}">>
      [] raw = RawNoContent -> <<>>
      [] raw = RawNumber -> <<"7">>
      [] raw = RawList -> <<"[", "]">>

Malformed == {RawPlain, RawNumberContent, RawNullContent, RawObjectContent,
              RawNoContent, RawNumber, RawList}

\* C11: whatever the model returns in a content turn (text that is no JSON,
\* an object whose content is an object, a number, null or missing, JSON that
\* is no object), the interpretation raises nothing and send_text is given a
\* string: str() of the content, or the cleaned text itself.
C11_ContentIsString ==
    \A t \in Threads :
       Answered(t) =>
          /\ obs[t].status # "500"
          /\ obs[t].ctype = "str"
          /\ Len(obs[t].out) >= 1
          /\ obs[t].out[1].type = "text"
          /\ obs[t].raw \in Malformed =>
                obs[t].out[1] = TextOut(ExpectedContent(obs[t].raw))

\* The model returned an object with a null content: the text None was sent.
C11_Witness ==
    \E t \in Threads :
       /\ Answered(t)
       /\ obs[t].raw = RawNullContent
       /\ obs[t].ctype = "str"
       /\ obs[t].out[1] = TextOut(<<"None">>)

\* The model returned a list: the cleaned text was sent as the answer.
C11_WitnessList ==
    \E t \in Threads :
       /\ Answered(t)
       /\ obs[t].raw = RawList
       /\ obs[t].out = <<TextOut(<<"[", "]">>), ButtonsOut>>

(***************************************************************************)
(* SpecStoreFaults: one request at a time, and the store may refuse a      *)
(* write: update_user raises instead of writing.                           *)
(***************************************************************************)
\* The thread is about to call update_user.
AtStoreWrite(t) ==
    IF pc[t] = "onboarding" THEN IsFullName(loc[t].msg.body)
    ELSE IF pc[t] = "credit_check" THEN ~Exhausted(loc[t].user)
    ELSE pc[t] \in {"credit_reset", "pum_save"}

\* db.collection("users").document(phone).update(fields) raises: update_user
\* has no handler, and neither have webhook and process_user_message.
UpdateUserRaises(t) ==
    /\ AtStoreWrite(t)
    /\ Raise(t, [obs[t] EXCEPT !.wfail = TRUE])
    /\ UNCHANGED <<db, sessions, objs, clock, nq, loc>>

FaultEvents == {TextMsg(p, body) : p \in Phones, body \in {Hi, JaneDoe}}

NextStoreFaults ==
    \/ \E t \in SerialWeb : \E msg \in FaultEvents :
          Ready(t) /\ NameWhenAsked(msg) /\ Receive(t, msg)
    \/ \E t \in SerialWeb : CreateUser(t)
    \/ \E t \in SerialWeb : Onboarding(t)
    \/ \E t \in SerialWeb : CreditReset(t)
    \/ \E t \in SerialWeb : CreditCheck(t)
    \/ \E t \in SerialWeb : TextMessage(t)
    \/ \E t \in SerialWeb : EnsureCheck(t)
    \/ \E t \in SerialWeb : EnsureInstall(t)
    \/ \E t \in SerialWeb : EnsureReturn(t)
    \/ \E t \in SerialWeb : PumAppend(t)
    \/ \E t \in SerialWeb : PumModel(t, RawAnswer)
    \/ \E t \in SerialWeb : PumSave(t)
    \/ \E t \in SerialWeb : UpdateUserRaises(t)
    \/ \E t \in SerialWeb : Finish(t)
    \/ (\A t \in Threads : pc[t] = "idle") /\ Tick

SpecStoreFaults == Init /\ [][NextStoreFaults]_vars

\* C12: a store write that fails during a turn (the reset, the decrement,
\* the name or the last prompt) is swallowed: the request is answered 200
\* and the turn's reply to the user is sent.
C12_StoreFailureSwallowed ==
    \A t \in WebThreads :
       (pc[t] = "done" /\ obs[t].wfail) =>
          /\ obs[t].status = "200"
          /\ Len(obs[t].out) >= 1

(***************************************************************************)
(* Properties of the dispatcher: buttons, tiers, partial events, the reset *)
(* time, and what a consumed credit buys.                                  *)
(***************************************************************************)
NotRejected(t) == \A i \in 1..Len(obs[t].out) : obs[t].out[i] # TextOut(LimitText)

\* The turn went past onboarding and the gate and has ended.
Dispatched(t) == InTurn(t) /\ Named(t) /\ pc[t] = "done" /\ NotRejected(t)

IsButtonReply(msg) == msg.type = "interactive" /\ msg.itype = "button_reply"

\* C13: a button reply whose id is neither understood nor explain_more
\* raises no error and the user receives an outbound message.
C13_OtherButtonAnswered ==
    \A t \in WebThreads :
       (/\ Dispatched(t)
        /\ IsButtonReply(loc[t].msg)
        /\ loc[t].msg.bid \notin {"understood", "explain_more"}) =>
          /\ obs[t].status = "200"
          /\ Len(obs[t].out) >= 1

\* C14: for a user whose tier is not free the gate allows the turn and
\* changes nothing: the turn is never at the gate and never rejected, and
\* the stored quota and reset time stay as the turn read them, although the
\* quota is 0 and the reset time has passed.
C14_OtherTiersPass ==
    \A t \in WebThreads :
       (InTurn(t) /\ Named(t) /\ loc[t].user.account_type # "free") =>
          /\ pc[t] \notin {"credit_reset", "credit_check"}
          /\ NotRejected(t)
          /\ obs[t].wrote \cap {"credit_remaining", "credit_reset"} = {}
          /\ db[loc[t].phone].credit_remaining = loc[t].user.credit_remaining
          /\ db[loc[t].phone].credit_reset.wall = loc[t].user.credit_reset.wall

\* A premium user with quota 0 and a reset time in the past was answered.
C14_Witness ==
    \E t \in WebThreads :
       /\ InTurn(t) /\ Named(t) /\ pc[t] = "done"
       /\ loc[t].user.account_type = "premium"
       /\ loc[t].user.credit_remaining = 0
       /\ loc[t].now > loc[t].user.credit_reset.wall
       /\ obs[t].appended = 1
       /\ Len(obs[t].out) >= 1

\* The event has no entry, no phone, or a message without text, button and
\* media.
IsPartial(msg) ==
    IF ~msg.entry \/ msg.from = "none" THEN TRUE
    ELSE /\ msg.type # "interactive"
         /\ msg.media = "none"
         /\ Strip(msg.body) = <<>>

\* C15: a malformed or partial event is acknowledged with 200 and dropped:
\* no outbound message is sent in its turn.
C15_PartialEventDropped ==
    \A t \in WebThreads :
       (pc[t] = "done" /\ IsPartial(loc[t].msg)) =>
          /\ obs[t].status = "200"
          /\ obs[t].out = <<>>

\* C16: an explain_more button reply of a user with a last prompt calls the
\* model once with the last prompt and the suffix, sends the interpreted
\* content of the response, then the buttons.
C16_ExplainMoreInterprets ==
    \A t \in WebThreads :
       (/\ Dispatched(t)
        /\ IsButtonReply(loc[t].msg)
        /\ loc[t].msg.bid = "explain_more"
        /\ loc[t].user.last_prompt # PyNone) =>
          /\ obs[t].calls = 1
          /\ obs[t].asked = loc[t].user.last_prompt \o ExplainSuffix
          /\ obs[t].out =
                <<TextOut(Interpret(get_gemini(obs[t].raw)).content.v), ButtonsOut>>

\* C18: a reset at time now leaves the stored reset time one period ahead,
\* later than now, and a turn of a free user before the reset time it read
\* does not reset and leaves the reset time alone.
C18_NoResetLoop ==
    \A t \in WebThreads :
       /\ (InTurn(t) /\ "credit_reset" \in obs[t].wrote) =>
             /\ db[loc[t].phone].credit_reset.wall = loc[t].now + Day
             /\ db[loc[t].phone].credit_reset.wall > loc[t].now
       /\ (/\ InTurn(t) /\ Named(t)
           /\ loc[t].user.account_type = "free"
           /\ loc[t].now < loc[t].user.credit_reset.wall) =>
             /\ pc[t] # "credit_reset"
             /\ "credit_reset" \notin obs[t].wrote
             /\ db[loc[t].phone].credit_reset.wall = loc[t].user.credit_reset.wall

\* The user the store held at the start had the reset time 1; it was reset
\* at time 1, and the turn at time 2, before the new reset time 3, took a
\* credit and did not reset.
C18_Witness ==
    \E t \in WebThreads :
       /\ InTurn(t) /\ pc[t] = "done"
       /\ loc[t].user.name = AnnLee
       /\ loc[t].user.credit_reset.wall = 1 + Day
       /\ loc[t].now = 2
       /\ obs[t].wrote = {"credit_remaining"}
       /\ db[loc[t].phone].credit_reset.wall = 1 + Day

\* C20: every turn of a named free user that takes a credit sends at least
\* one message, whatever the event.
C20_CreditBuysReply ==
    \A t \in WebThreads :
       (/\ Dispatched(t)
        /\ loc[t].user.account_type = "free"
        /\ "credit_remaining" \in obs[t].wrote) =>
          Len(obs[t].out) >= 1

(***************************************************************************)
(* SpecVoice: one request at a time, voice messages with the same media    *)
(* id delivered again and again, and every outcome of the transcription.   *)
(***************************************************************************)
VoiceEvents ==
    {AudioMsg(p, m) : p \in Phones, m \in MediaIds}
       \cup {TextMsg(p, JaneDoe) : p \in Phones}

NextVoice ==
    \/ \E t \in SerialWeb : \E msg \in VoiceEvents :
          Ready(t) /\ NameWhenAsked(msg) /\ Receive(t, msg)
    \/ \E t \in SerialWeb : Quiet(t) /\ CreateUser(t)
    \/ \E t \in SerialWeb : Quiet(t) /\ Onboarding(t)
    \/ \E t \in SerialWeb : Quiet(t) /\ CreditReset(t)
    \/ \E t \in SerialWeb : Quiet(t) /\ CreditCheck(t)
    \/ \E t \in SerialWeb : \E v \in SerialVoice : Quiet(t) /\ SpawnVoice(t, v)
    \/ \E t \in SerialVoice : Ready(t) /\ EnsureCheck(t)
    \/ \E t \in SerialVoice : EnsureInstall(t)
    \/ \E t \in SerialVoice : EnsureReturn(t)
    \/ \E t \in SerialVoice : VoiceLookup(t)
    \/ \E t \in SerialVoice : \E res \in Transcriptions : VoiceTranscribe(t, res)
    \/ \E t \in SerialVoice : PumAppend(t)
    \/ \E t \in SerialVoice : PumModel(t, RawAnswer)
    \/ \E t \in SerialVoice : PumSave(t)
    \/ \E t \in SerialThreads : Quiet(t) /\ Finish(t)
    \/ (\A t \in Threads : pc[t] = "idle") /\ Tick

SpecVoice == Init /\ [][NextVoice]_vars

\* A transcript that was heard below the threshold, or that is empty.
IsUnclearText(text) == text = Mumble \/ Strip(text) = <<>>

\* C19: a transcription with a confidence below 0.6 or an empty text is never
\* forwarded to process_user_message: it is in no history and no prompt is
\* built for it, also when the same media id is delivered again and served
\* from the voice cache.
C19_UnclearNeverForwarded ==
    /\ \A o \in DOMAIN objs :
          \A i \in 1..Len(objs[o].history) : ~IsUnclearText(objs[o].history[i])
    /\ \A t \in VoiceThreads :
          pc[t] \in {"pum_append", "pum_clear", "pum_model", "pum_save"} =>
             ~IsUnclearText(loc[t].text)

(***************************************************************************)
(* SpecSessions: a premium user's text turns and voice messages, the voice *)
(* thread running alongside the next request, their steps interleaved in   *)
(* any order.                                                              *)
(***************************************************************************)
InitSessions ==
    /\ Init
    /\ DOMAIN db = Phones
    /\ \A p \in Phones : db[p].account_type = "premium"

SessionEvents == NewQuestions \cup {AudioMsg(p, m) : p \in Phones, m \in MediaIds}

NextSessions ==
    \/ \E t \in SerialWeb : \E msg \in SessionEvents : Receive(t, msg)
    \/ \E t \in SerialWeb : \E v \in SerialVoice : SpawnVoice(t, v)
    \/ \E t \in SerialWeb : TextMessage(t)
    \/ \E t \in SerialThreads : EnsureCheck(t)
    \/ \E t \in SerialThreads : EnsureInstall(t)
    \/ \E t \in SerialThreads : EnsureReturn(t)
    \/ \E t \in SerialThreads : PumAppend(t)
    \/ \E t \in SerialThreads : PumModel(t, RawAnswer)
    \/ \E t \in SerialThreads : PumSave(t)
    \/ \E t \in SerialVoice : VoiceLookup(t)
    \/ \E t \in SerialVoice : \E res \in {TranscriptionFails, Heard(Hi, MinConfidence)} :
          VoiceTranscribe(t, res)
    \/ \E t \in SerialThreads : Finish(t)

SpecSessions == InitSessions /\ [][NextSessions]_vars

\* The thread has appended its input to a history and is still in its turn.
HasAppended(t) ==
    pc[t] \in {"pum_model", "pum_save", "done"} /\ obs[t].appended > 0

\* C17: with a voice thread running alongside a webhook content turn for the
\* same phone, one session object at most is ever installed for the phone,
\* and the input a turn has appended is in the history of the phone's
\* session unless the history is at its capacity.
C17_SessionRaceFree ==
    /\ \A p \in Phones : Cardinality({o \in DOMAIN objs : o[1] = p}) <= 1
    /\ \A t \in Threads :
          HasAppended(t) =>
             LET h == objs[sessions[loc[t].phone]].history IN
             \/ \E i \in 1..Len(h) : h[i] = loc[t].text
             \/ Len(h) = HistoryCap

====
